---- MODULE Spec2Model ----
(***************************************************************************)
(* Model of src/hex-grid.js: the HexGrid class of the hexagonal-grid       *)
(* illumination visualizer.  The state is the object's fields (W, H, grid, *)
(* isVisited, perimeterEdges), the text of the #total-length span, and the *)
(* outcome of the handler that ran last.  Canvas drawing, pixel geometry   *)
(* and the visual fields (hexSize, showCoords, ...) are not modelled: a    *)
(* click is modelled by the cell the hit test picks (bestPos) or by no     *)
(* cell at all, the text of the load box by the numbers of its tokens.     *)
(***************************************************************************)
EXTENDS Integers, Sequences, FiniteSets, TLC

VARIABLES
    W, H,            \* this.W, this.H
    grid,            \* this.grid
    isVisited,       \* this.isVisited
    perimeterEdges,  \* this.perimeterEdges
    totalCount,      \* the local totalCount of computePerimeter (its last value)
    stack,           \* the calls of dfs in progress, innermost last
    totalLength,     \* the text of the #total-length span
    last             \* how the last handler that wrote a field ended: "ok" or
                     \* the exception thrown

vars == <<W, H, grid, isVisited, perimeterEdges, totalCount, stack, totalLength,
          last>>

(***************************************************************************)
(* Bounds of the model.                                                    *)
(***************************************************************************)
\* Largest width / height of the grids drawn as inputs of the trace.
MaxW == 3
MaxH == 3
\* Largest width / height of the empty grids the clicks start from.
MaxClickW == 3
MaxClickH == 4
\* Most filled cells the clicks on the page build up.
MaxFilled == 1
\* Most filled cells the clicks on an empty grid build up.
MaxClickFilled == 2
\* Largest width / height of the grids traced step by step.
MaxDfsW == 2
MaxDfsH == 2
\* The numbers given as width and height run from -MaxNeg to MaxLoad.
MaxNeg == 3
MaxLoad == 2
\* Most data lines of a loaded text.
MaxLines == 2

(***************************************************************************)
(* Program constants.                                                      *)
(***************************************************************************)
\* initEmptyGrid(8, 4) in the constructor.
DefaultW == 8
DefaultH == 4

\* this.dx / this.dy: row y % 2 selects the table, d the direction.
\* The column offsets as they would be with the row parity ignored.
dxEven == << <<1, 0, -1, -1, -1, 0>>, <<1, 0, -1, -1, -1, 0>> >>

dx == << <<1, 0, -1, -1, -1, 0>>, <<1, 1, 0, -1, 0, 1>> >>
dy == << <<0, 1, 1, 0, -1, -1>>, <<0, 1, 1, 0, -1, -1>> >>

(***************************************************************************)
(* JavaScript arrays.  A matrix is a function from row index to a function *)
(* from column index to a value, both 0-based.                             *)
(***************************************************************************)
\* Array.from({ length: rows }, () => Array(cols).fill(v)).  A length <= 0
\* yields the empty array and the row constructor is never called.
NewMatrix(rows, cols, v) == [y \in 0..(rows - 1) |-> [x \in 0..(cols - 1) |-> v]]

\* Array(cols) throws a RangeError for a negative length; it is called once
\* per row, so only when there is at least one row.
ArrayThrows(rows, cols) == rows > 0 /\ cols < 0

\* m[y][x] === 1; a missing element reads as undefined, which is not 1.
IsOne(m, y, x) == y \in DOMAIN m /\ x \in DOMAIN m[y] /\ m[y][x] = 1

\* m[y][x] as a condition; a missing element reads as undefined (falsy).
IsTrue(m, y, x) == y \in DOMAIN m /\ x \in DOMAIN m[y] /\ m[y][x] = TRUE

\* m[y][x] = v; writing past the end of a row extends the row.
SetCell(m, y, x, v) ==
    IF x \in DOMAIN m[y]
    THEN [m EXCEPT ![y][x] = v]
    ELSE [m EXCEPT ![y] = [i \in (DOMAIN m[y]) \cup {x} |-> IF i = x THEN v ELSE m[y][i]]]

\* The object's fields read by the operations, as one record.
Self ==
    [W |-> W, H |-> H, grid |-> grid, isVisited |-> isVisited,
     perimeterEdges |-> perimeterEdges, totalCount |-> totalCount,
     stack |-> stack, totalLength |-> totalLength]

(***************************************************************************)
(* computePerimeter                                                        *)
(***************************************************************************)
\* backDir as it would be with the flip to the opposite side forgotten.
backDirSame(d) == d

\* const backDir = (d + 3) % 6
backDir(d) == (d + 3) % 6

\* The bounds test as it would be with the lower limits only.
OutOfGridLow(s, ny, nx) == ny < 0 \/ nx < 0

\* The bounds test of the probe: the neighbour is skipped when it holds.
OutOfGrid(s, ny, nx) == ny < 0 \/ nx < 0 \/ ny > s.H + 1 \/ nx > s.W + 1

\* The guard at the head of dfs: return at once on a filled or visited cell.
DfsReturns(s, y, x) == IsOne(s.grid, y, x) \/ IsTrue(s.isVisited, y, x)

\* A call of dfs in progress: its arguments y, x and the direction d the
\* for loop probes next (-1: the call has not passed its guard yet).
Frame(y, x, d) == [y |-> y, x |-> x, d |-> d]

\* return: the innermost call ends.
Pop(st) == SubSeq(st, 1, Len(st) - 1)

\* dfsStep as it would be with the for loop stopping one direction early.
dfsStepFive(m) ==
    LET n == Len(m.stack)
        f == m.stack[n]
        ny == f.y + dy[(f.y % 2) + 1][f.d + 1]
        nx == f.x + dx[(f.y % 2) + 1][f.d + 1]
    IN  IF f.d = -1
        THEN IF DfsReturns(m, f.y, f.x)
             THEN [m EXCEPT !.stack = Pop(@)]
             ELSE [m EXCEPT !.isVisited = SetCell(@, f.y, f.x, TRUE),
                            !.stack[n].d = 0]
        ELSE IF f.d >= 5
        THEN [m EXCEPT !.stack = Pop(@)]
        ELSE IF OutOfGrid(m, ny, nx)
        THEN [m EXCEPT !.stack[n].d = f.d + 1]
        ELSE IF IsOne(m.grid, ny, nx)
        THEN [m EXCEPT !.perimeterEdges =
                           Append(@, [x |-> nx, y |-> ny, dir |-> backDir(f.d)]),
                       !.totalCount = @ + 1,
                       !.stack[n].d = f.d + 1]
        ELSE [m EXCEPT !.stack = Append([@ EXCEPT ![n].d = f.d + 1],
                                        Frame(ny, nx, -1))]

\* One step of the innermost dfs call on the object m: the guard and the
\* mark of a call that starts, one iteration of its for loop, or its return.
dfsStep(m) ==
    LET n == Len(m.stack)
        f == m.stack[n]
        ny == f.y + dy[(f.y % 2) + 1][f.d + 1]
        nx == f.x + dx[(f.y % 2) + 1][f.d + 1]
    IN  IF f.d = -1
        THEN IF DfsReturns(m, f.y, f.x)
             THEN [m EXCEPT !.stack = Pop(@)]
             ELSE [m EXCEPT !.isVisited = SetCell(@, f.y, f.x, TRUE),
                            !.stack[n].d = 0]
        ELSE IF f.d >= 6
        THEN [m EXCEPT !.stack = Pop(@)]
        ELSE IF OutOfGrid(m, ny, nx)
        THEN [m EXCEPT !.stack[n].d = f.d + 1]
        ELSE IF IsOne(m.grid, ny, nx)
        THEN [m EXCEPT !.perimeterEdges =
                           Append(@, [x |-> nx, y |-> ny, dir |-> backDir(f.d)]),
                       !.totalCount = @ + 1,
                       !.stack[n].d = f.d + 1]
        ELSE [m EXCEPT !.stack = Append([@ EXCEPT ![n].d = f.d + 1],
                                        Frame(ny, nx, -1))]

\* dfs(0, 0) has returned.
DfsDone(m) == m.stack = <<>>

RECURSIVE dfsSteps(_, _), dfsRun(_)
\* At most n steps, stopping when dfs(0, 0) has returned.
dfsSteps(m, n) ==
    IF DfsDone(m) \/ n <= 0
    THEN m
    ELSE IF n = 1
    THEN dfsStep(m)
    ELSE LET half == dfsSteps(m, n \div 2)
         IN  IF DfsDone(half) THEN half ELSE dfsSteps(half, n - (n \div 2))

\* The steps of dfs(0, 0) up to its return.
dfsRun(m) ==
    LET r == dfsSteps(m, 1024)
    IN  IF DfsDone(r) THEN r ELSE dfsRun(r)

\* dfs as it would be when started on the first content cell, not the ring.
dfsFromContent(m) == dfsRun([m EXCEPT !.stack = <<Frame(1, 1, -1)>>])

\* dfs(0, 0): the state when the call returns.
dfs(m) == dfsRun([m EXCEPT !.stack = <<Frame(0, 0, -1)>>])

\* The head of computePerimeter as it would be with isVisited allocated only
\* when its height does not fit the grid, and kept otherwise.
ResetTraceKeep(s) ==
    [s EXCEPT !.isVisited = IF DOMAIN s.isVisited = 0..(s.H + 1)
                            THEN @
                            ELSE NewMatrix(s.H + 2, s.W + 2, FALSE),
              !.perimeterEdges = <<>>,
              !.totalCount = 0]

\* The head of computePerimeter: a fresh isVisited matrix, an empty edge
\* list and a zero count.
ResetTrace(s) ==
    [s EXCEPT !.isVisited = NewMatrix(s.H + 2, s.W + 2, FALSE),
              !.perimeterEdges = <<>>,
              !.totalCount = 0]

\* computePerimeter(): [self, ret, err].  err is the exception that leaves
\* the call ("none" when it returns), ret the returned count.
computePerimeter(s) ==
    IF ArrayThrows(s.H + 2, s.W + 2)
    THEN [self |-> s, ret |-> 0, err |-> "RangeError"]
    ELSE LET s1 == ResetTrace(s)
         IN  IF 0 \notin DOMAIN s1.grid
             THEN \* this.grid[0] is undefined: reading [0] of it throws
                  [self |-> s1, ret |-> 0, err |-> "TypeError"]
             ELSE LET r == dfs(s1)
                  IN  [self |-> r, ret |-> r.totalCount, err |-> "none"]

\* draw(): retrace and show the count in the #total-length span.
draw(s) ==
    LET r == computePerimeter(s)
    IN  IF r.err = "none"
        THEN [self |-> [r.self EXCEPT !.totalLength = r.ret], err |-> "none"]
        ELSE [self |-> r.self, err |-> r.err]

\* resizeCanvas(): sets the canvas size and draws.
resizeCanvas(s) == draw(s)

(***************************************************************************)
(* handleClick                                                             *)
(***************************************************************************)
\* The cells the hit test loops over: 1 <= y <= H, 1 <= x <= W, as <<y, x>>.
ContentCells(w, h) == (1..h) \X (1..w)

\* The toggle as it would be when a click only ever fills a cell.
ToggleFill(g, y, x) == [g EXCEPT ![y][x] = 1]

\* this.grid[y][x] = 1 - this.grid[y][x]
Toggle(g, y, x) == [g EXCEPT ![y][x] = 1 - @]

\* handleClick with bestPos = {x, y}: toggle the cell, then draw.
handleClick(s, y, x) == draw([s EXCEPT !.grid = Toggle(s.grid, y, x)])

(***************************************************************************)
(* initEmptyGrid and loadFromInput                                         *)
(***************************************************************************)
\* initEmptyGrid(w, h): W and H are assigned before the grid is allocated.
initEmptyGrid(s, w, h) ==
    LET s1 == [s EXCEPT !.W = w, !.H = h]
    IN  IF ArrayThrows(h + 2, w + 2)
        THEN [self |-> s1, err |-> "RangeError"]
        ELSE resizeCanvas([s1 EXCEPT !.grid = NewMatrix(h + 2, w + 2, 0)])

\* rowData[j - 1] || 0: a missing token (undefined) and 0 both give 0.
Token(row, j) == IF j <= Len(row) /\ row[j] # 0 THEN row[j] ELSE 0

\* The grid after the rows 1..upto of the text have been copied into a new
\* (h+2) x (w+2) matrix of zeros.
LoadedGrid(w, h, lines, upto) ==
    [y \in 0..(h + 1) |-> [x \in 0..(w + 1) |->
        IF y \in 1..upto /\ x \in 1..w THEN Token(lines[y], x) ELSE 0]]

\* loadFromInput() on a text of at least two non-empty lines: the header
\* "w h" and the data lines (each the numbers of its tokens).  lines[i] of a
\* row past the end of the text is undefined, and its split throws.
loadFromInput(s, w, h, lines) ==
    LET s1 == [s EXCEPT !.W = w, !.H = h]
    IN  IF ArrayThrows(h + 2, w + 2)
        THEN [self |-> s1, err |-> "RangeError"]
        ELSE IF h > Len(lines)
        THEN [self |-> [s1 EXCEPT !.grid = LoadedGrid(w, h, lines, Len(lines))],
              err |-> "TypeError"]
        ELSE resizeCanvas([s1 EXCEPT !.grid = LoadedGrid(w, h, lines, h)])

\* The toggle-coords button: flip showCoords (not modelled) and draw.
toggleCoords(s) == draw(s)

(***************************************************************************)
(* Installing the result of an operation in the variables.                 *)
(***************************************************************************)
Install(r) ==
    /\ W' = r.self.W
    /\ H' = r.self.H
    /\ grid' = r.self.grid
    /\ isVisited' = r.self.isVisited
    /\ perimeterEdges' = r.self.perimeterEdges
    /\ totalCount' = r.self.totalCount
    /\ stack' = r.self.stack
    /\ totalLength' = r.self.totalLength
    /\ last' = IF r.err = "none" THEN "ok" ELSE r.err

\* The cells of g that hold 1.
FilledCells(g) == {c \in UNION {{<<y, x>> : x \in DOMAIN g[y]} : y \in DOMAIN g} :
                      g[c[1]][c[2]] = 1}

(***************************************************************************)
(* The page: the object as the constructor leaves it, and the events.      *)
(***************************************************************************)
\* The fields as the constructor sets them before initEmptyGrid(8, 4).
Constructed ==
    [W |-> 0, H |-> 0, grid |-> <<>>, isVisited |-> <<>>, perimeterEdges |-> <<>>,
     totalCount |-> 0, stack |-> <<>>, totalLength |-> 0]

\* After new HexGrid('hex-grid') and the creation of the span, whose text
\* is the literal 0 (the constructor's draw finds no span yet).
Init ==
    LET r == initEmptyGrid(Constructed, DefaultW, DefaultH)
    IN  /\ W = r.self.W
        /\ H = r.self.H
        /\ grid = r.self.grid
        /\ isVisited = r.self.isVisited
        /\ perimeterEdges = r.self.perimeterEdges
        /\ totalCount = r.self.totalCount
        /\ stack = r.self.stack
        /\ totalLength = 0
        /\ last = "ok"

\* The numbers a header, or a call of initEmptyGrid, gives as w and h.
DimInputs == (0 - MaxNeg)..MaxLoad

\* The data lines of a text: each line the numbers of its 0/1 tokens.
RowInputs == {<<0, 1>>}
LineInputs == UNION {[1..n -> RowInputs] : n \in 1..MaxLines}

\* mousedown on the cell <<y, x>>.
HandleClickAt(y, x) == Install(handleClick(Self, y, x))

\* mousedown on some cell; a click that fills a cell is left out once the
\* grid holds cap filled cells.
HandleClickUpTo(cap) ==
    \E c \in ContentCells(W, H) :
        /\ grid[c[1]][c[2]] # 0 \/ Cardinality(FilledCells(grid)) < cap
        /\ HandleClickAt(c[1], c[2])

HandleClick == HandleClickUpTo(MaxFilled)

\* mousedown on no cell (bestPos stays null): nothing is written.
HandleClickMiss == UNCHANGED vars

\* The load button on a text with a header and data lines.
LoadWith(w, h, lines) == Install(loadFromInput(Self, w, h, lines))

LoadFromInput == \E w \in DimInputs, h \in DimInputs, lines \in LineInputs : LoadWith(w, h, lines)

\* The load button on an empty text or a single line: an early return.
LoadFromInputShort == UNCHANGED vars

\* A call of hexGrid.initEmptyGrid(w, h).
InitEmptyGridWith(w, h) == Install(initEmptyGrid(Self, w, h))

InitEmptyGrid == \E w \in DimInputs, h \in DimInputs : InitEmptyGridWith(w, h)

\* window 'resize': resizeCanvas().
Resize == Install(resizeCanvas(Self))

\* click on the toggle-coords button.
ToggleCoords == Install(toggleCoords(Self))

Next ==
    \/ HandleClick
    \/ HandleClickMiss
    \/ LoadFromInput
    \/ LoadFromInputShort
    \/ InitEmptyGrid
    \/ Resize
    \/ ToggleCoords

Spec == Init /\ [][Next]_vars

(***************************************************************************)
(* The trace as a function of the grid: the initial states are the grids   *)
(* of bounded size with an empty border ring, before any trace; the action *)
(* is a handler that traces.                                               *)
(***************************************************************************)
\* The grids of content size w x h: 0/1 in the content, 0 on the ring.
Grids(w, h) ==
    {[y \in 0..(h + 1) |-> [x \in 0..(w + 1) |->
          IF <<y, x>> \in ContentCells(w, h) THEN f[<<y, x>>] ELSE 0]] :
       f \in [ContentCells(w, h) -> {0, 1}]}

\* An object holding a grid of at most maxw x maxh that was never traced.
Untraced(maxw, maxh) ==
    /\ W \in 1..maxw
    /\ H \in 1..maxh
    /\ grid \in Grids(W, H)
    /\ isVisited = <<>>
    /\ perimeterEdges = <<>>
    /\ totalCount = 0
    /\ stack = <<>>
    /\ totalLength = 0
    /\ last = "input"

InitTrace == Untraced(MaxW, MaxH)

NextTrace == Resize

SpecTrace == InitTrace /\ [][NextTrace]_vars

(***************************************************************************)
(* Clicks on an empty grid: the initial states are the objects             *)
(* initEmptyGrid leaves for bounded sizes; the actions are the clicks.     *)
(***************************************************************************)
InitClick ==
    \E w \in 1..MaxClickW, h \in 1..MaxClickH :
        LET r == initEmptyGrid(Constructed, w, h)
        IN  /\ W = r.self.W
            /\ H = r.self.H
            /\ grid = r.self.grid
            /\ isVisited = r.self.isVisited
            /\ perimeterEdges = r.self.perimeterEdges
            /\ totalCount = r.self.totalCount
            /\ stack = r.self.stack
            /\ totalLength = r.self.totalLength
            /\ last = "ok"

NextClick == HandleClickUpTo(MaxClickFilled) \/ HandleClickMiss

SpecClick == InitClick /\ [][NextClick]_vars

(***************************************************************************)
(* computePerimeter step by step: one action per step of dfs.              *)
(***************************************************************************)
InitDfs == Untraced(MaxDfsW, MaxDfsH)

\* The head of computePerimeter and the call dfs(0, 0).
DfsBegin ==
    /\ last = "input"
    /\ LET s1 == ResetTrace(Self)
       IN  /\ isVisited' = s1.isVisited
           /\ perimeterEdges' = s1.perimeterEdges
           /\ totalCount' = s1.totalCount
    /\ stack' = <<Frame(0, 0, -1)>>
    /\ last' = "tracing"
    /\ UNCHANGED <<W, H, grid, totalLength>>

\* One step of the innermost call.
DfsStep ==
    /\ last = "tracing"
    /\ ~DfsDone(Self)
    /\ LET m == dfsStep(Self)
       IN  /\ isVisited' = m.isVisited
           /\ perimeterEdges' = m.perimeterEdges
           /\ totalCount' = m.totalCount
           /\ stack' = m.stack
    /\ UNCHANGED <<W, H, grid, totalLength, last>>

\* dfs(0, 0) has returned: computePerimeter returns totalCount to draw.
DfsReturn ==
    /\ last = "tracing"
    /\ DfsDone(Self)
    /\ totalLength' = totalCount
    /\ last' = "ok"
    /\ UNCHANGED <<W, H, grid, isVisited, perimeterEdges, totalCount, stack>>

NextDfs == DfsBegin \/ DfsStep \/ DfsReturn

\* The call runs to completion: no step of it is postponed for ever.
SpecDfs == InitDfs /\ [][NextDfs]_vars /\ WF_vars(NextDfs)

(***************************************************************************)
(* What the trace should find, stated on the grid alone.                   *)
(***************************************************************************)
\* The offsets (dcol, drow) of the six sides 0..5 of a cell: Right,
\* Bottom-Right, Bottom-Left, Left, Top-Left, Top-Right.
EvenRowOffsets == << <<1, 0>>, <<0, 1>>, <<-1, 1>>, <<-1, 0>>, <<-1, -1>>, <<0, -1>> >>
OddRowOffsets == << <<1, 0>>, <<1, 1>>, <<0, 1>>, <<-1, 0>>, <<0, -1>>, <<1, -1>> >>

\* The cell <<row, col>> across side d of the cell c = <<row, col>>.
Across(c, d) ==
    LET o == IF c[1] % 2 = 0 THEN EvenRowOffsets[d + 1] ELSE OddRowOffsets[d + 1]
    IN  <<c[1] + o[2], c[2] + o[1]>>

\* All cells of the grid, ring included, and the cells of the ring.
AllCells(w, h) == (0..(h + 1)) \X (0..(w + 1))
RingCells(w, h) == AllCells(w, h) \ ContentCells(w, h)

IsFilled(g, c) == g[c[1]][c[2]] = 1

RECURSIVE Flood(_, _, _, _)
\* The empty cells joined to a cell of S by a path of adjacent empty cells.
Flood(g, w, h, S) ==
    LET more == {n \in AllCells(w, h) \ S :
                    /\ ~IsFilled(g, n)
                    /\ \E c \in S, d \in 0..5 : Across(c, d) = n}
    IN  IF more = {} THEN S ELSE Flood(g, w, h, S \cup more)

\* The empty cells connected to (0,0).
Outside(g, w, h) == Flood(g, w, h, IF IsFilled(g, <<0, 0>>) THEN {} ELSE {<<0, 0>>})

\* The sides of filled cells that face a cell of the outside.
OutsideEdges(g, w, h) ==
    LET out == Outside(g, w, h)
    IN  {[x |-> c[2], y |-> c[1], dir |-> d] :
            <<c, d>> \in {e \in AllCells(w, h) \X (0..5) :
                            IsFilled(g, e[1]) /\ Across(e[1], e[2]) \in out}}

\* The entries of an edge list, as a set.
EdgeSet(edges) == {edges[i] : i \in 1..Len(edges)}

\* The border ring of the grid is empty.
RingEmpty == \A c \in RingCells(W, H) : ~IsFilled(grid, c)

(***************************************************************************)
(* C1: for every grid with an empty border ring, after computePerimeter    *)
(* the list perimeterEdges holds, exactly once each, the sides of filled   *)
(* cells that face an empty cell connected to (0,0), and nothing else; the *)
(* returned count (shown as the total) is the length of the list.          *)
(***************************************************************************)
C1_PerimeterIsOutsideEdges ==
    (last = "ok" /\ RingEmpty) =>
        LET expected == OutsideEdges(grid, W, H)
        IN  /\ EdgeSet(perimeterEdges) = expected
            /\ Len(perimeterEdges) = Cardinality(expected)
            /\ totalCount = Len(perimeterEdges)
            /\ totalLength = totalCount

\* A traced grid with an empty cell the outside does not reach, and with
\* two filled cells side by side.
C1_Witness ==
    /\ last = "ok"
    /\ perimeterEdges # <<>>
    /\ \E c \in ContentCells(W, H) : ~IsFilled(grid, c) /\ c \notin Outside(grid, W, H)
    /\ \E c \in ContentCells(W, H), d \in 0..5 :
          /\ Across(c, d) \in ContentCells(W, H)
          /\ IsFilled(grid, c) /\ IsFilled(grid, Across(c, d))

(***************************************************************************)
(* C4: a second computePerimeter on an unchanged grid returns the same     *)
(* count and leaves the same set of edges, whatever isVisited and the edge *)
(* list hold from the first call.                                          *)
(***************************************************************************)
C4_Idempotent ==
    [][(last = "ok" /\ last' = "ok" /\ grid' = grid /\ W' = W /\ H' = H) =>
          /\ totalCount' = totalCount
          /\ totalLength' = totalLength
          /\ EdgeSet(perimeterEdges') = EdgeSet(perimeterEdges)]_vars

\* A traced grid whose trace left marks in isVisited and edges in the list,
\* the state every further trace starts from.
C4_Witness ==
    /\ last = "ok"
    /\ totalCount > 0
    /\ Len(perimeterEdges) = totalCount
    /\ IsTrue(isVisited, 0, 0)

(***************************************************************************)
(* C2: with W >= 3 and H >= 3, a single filled cell that does not touch    *)
(* the edge of the content gives a count of 6 and six entries for that     *)
(* cell, one for each side 0..5.                                           *)
(***************************************************************************)
\* c is a content cell with 2 <= row <= H-1 and 2 <= col <= W-1.
Interior(c) == 2 <= c[1] /\ c[1] <= H - 1 /\ 2 <= c[2] /\ c[2] <= W - 1

C2_SingleCellSix ==
    \A c \in ContentCells(W, H) :
        (last = "ok" /\ W >= 3 /\ H >= 3 /\ Interior(c) /\ FilledCells(grid) = {c}) =>
            /\ totalLength = 6
            /\ totalCount = 6
            /\ Len(perimeterEdges) = 6
            /\ EdgeSet(perimeterEdges) = {[x |-> c[2], y |-> c[1], dir |-> d] : d \in 0..5}

\* A single filled cell in an odd interior row, traced after the click.
C2_Witness ==
    /\ last = "ok"
    /\ W >= 3 /\ H >= 4
    /\ FilledCells(grid) = {<<3, 2>>}
    /\ totalLength = 6

(***************************************************************************)
(* C3: two filled cells c and n, n across side d of c, both content cells  *)
(* and the only filled ones, give a count of 10: the five sides of c other *)
(* than d and the five sides of n other than (d+3) mod 6.                  *)
(***************************************************************************)
C3_TwoAdjacentTen ==
    \A c \in ContentCells(W, H), d \in 0..5 :
        LET n == Across(c, d)
        IN  (last = "ok" /\ n \in ContentCells(W, H) /\ FilledCells(grid) = {c, n}) =>
                /\ totalLength = 10
                /\ totalCount = 10
                /\ Len(perimeterEdges) = 10
                /\ EdgeSet(perimeterEdges) =
                       {[x |-> c[2], y |-> c[1], dir |-> e] : e \in (0..5) \ {d}}
                       \cup {[x |-> n[2], y |-> n[1], dir |-> e] : e \in (0..5) \ {(d + 3) % 6}}

\* Two filled cells side by side across a slanted side, traced.
C3_Witness ==
    /\ last = "ok"
    /\ FilledCells(grid) = {<<2, 2>>, <<3, 2>>}
    /\ totalLength = 10

(***************************************************************************)
(* C5: toggling a content cell twice through the click handler and tracing *)
(* gives the grid, the count and the edge set traced before the first      *)
(* toggle.                                                                 *)
(***************************************************************************)
C5_ToggleTwice ==
    \A c \in ContentCells(W, H) :
        last = "ok" =>
            LET once == handleClick(Self, c[1], c[2]).self
                twice == handleClick(once, c[1], c[2]).self
            IN  /\ twice.grid = grid
                /\ twice.totalLength = totalLength
                /\ twice.totalCount = totalCount
                /\ EdgeSet(twice.perimeterEdges) = EdgeSet(perimeterEdges)

\* A traced grid on which one click changes the count and the second click
\* brings it back.
C5_Witness ==
    /\ last = "ok"
    /\ totalLength > 0
    /\ \E c \in ContentCells(W, H) :
          LET once == handleClick(Self, c[1], c[2]).self
              twice == handleClick(once, c[1], c[2]).self
          IN  /\ once.grid # grid
              /\ once.totalLength # totalLength
              /\ twice.totalLength = totalLength

(***************************************************************************)
(* The flood fill with the probe order and the expansion order left open.  *)
(***************************************************************************)
\* The six directions starting at r, clockwise or counter-clockwise.
Turn(r, flip) == [k \in 1..6 |-> IF flip THEN (r + 7 - k) % 6 ELSE (r + k - 1) % 6]

\* The probe orders tried: every rotation and reflection of 0..5, and two
\* orders that are neither.
ProbeOrders ==
    {Turn(r, flip) : r \in 0..5, flip \in BOOLEAN}
    \cup {<<0, 3, 1, 4, 2, 5>>, <<5, 2, 0, 4, 1, 3>>}

\* The expansion orders tried: nested calls, a stack of pending cells, a
\* queue of pending cells.
FillModes == {"recursive", "stack", "queue"}

\* The neighbour of (y, x) in direction d.
Neighbour(y, x, d) ==
    [y |-> y + dy[(y % 2) + 1][d + 1], x |-> x + dx[(y % 2) + 1][d + 1]]

\* One step of the nested calls, the directions taken in the given order.
orderedStep(m, order) ==
    LET n == Len(m.stack)
        f == m.stack[n]
        d == order[f.d + 1]
        nb == Neighbour(f.y, f.x, d)
    IN  IF f.d = -1
        THEN IF DfsReturns(m, f.y, f.x)
             THEN [m EXCEPT !.stack = Pop(@)]
             ELSE [m EXCEPT !.isVisited = SetCell(@, f.y, f.x, TRUE),
                            !.stack[n].d = 0]
        ELSE IF f.d >= 6
        THEN [m EXCEPT !.stack = Pop(@)]
        ELSE IF OutOfGrid(m, nb.y, nb.x)
        THEN [m EXCEPT !.stack[n].d = f.d + 1]
        ELSE IF IsOne(m.grid, nb.y, nb.x)
        THEN [m EXCEPT !.perimeterEdges =
                           Append(@, [x |-> nb.x, y |-> nb.y, dir |-> backDir(d)]),
                       !.totalCount = @ + 1,
                       !.stack[n].d = f.d + 1]
        ELSE [m EXCEPT !.stack = Append([@ EXCEPT ![n].d = f.d + 1],
                                        Frame(nb.y, nb.x, -1))]

RECURSIVE probeFrom(_, _, _, _, _)
\* The probes of the cell (y, x) from the k-th direction of the order on:
\* an edge for a filled neighbour, a pending entry for an empty one.
probeFrom(m, y, x, order, k) ==
    IF k > 6
    THEN m
    ELSE LET d == order[k]
             nb == Neighbour(y, x, d)
         IN  IF OutOfGrid(m, nb.y, nb.x)
             THEN probeFrom(m, y, x, order, k + 1)
             ELSE IF IsOne(m.grid, nb.y, nb.x)
             THEN probeFrom([m EXCEPT !.perimeterEdges =
                                          Append(@, [x |-> nb.x, y |-> nb.y,
                                                     dir |-> backDir(d)]),
                                      !.totalCount = @ + 1],
                            y, x, order, k + 1)
             ELSE probeFrom([m EXCEPT !.stack = Append(@, Frame(nb.y, nb.x, -1))],
                            y, x, order, k + 1)

\* One step of a work-list fill: take the newest (stack) or the oldest
\* (queue) pending cell, drop it when filled or visited, else mark and probe.
worklistStep(m, order, mode) ==
    LET f == IF mode = "stack" THEN m.stack[Len(m.stack)] ELSE Head(m.stack)
        m1 == [m EXCEPT !.stack = IF mode = "stack" THEN Pop(@) ELSE Tail(@)]
    IN  IF DfsReturns(m1, f.y, f.x)
        THEN m1
        ELSE probeFrom([m1 EXCEPT !.isVisited = SetCell(@, f.y, f.x, TRUE)],
                       f.y, f.x, order, 1)

fillStep(m, order, mode) ==
    IF mode = "recursive" THEN orderedStep(m, order) ELSE worklistStep(m, order, mode)

RECURSIVE fillSteps(_, _, _, _), fillRun(_, _, _)
\* At most n steps, stopping when nothing is pending.
fillSteps(m, order, mode, n) ==
    IF DfsDone(m) \/ n <= 0
    THEN m
    ELSE IF n = 1
    THEN fillStep(m, order, mode)
    ELSE LET half == fillSteps(m, order, mode, n \div 2)
         IN  IF DfsDone(half) THEN half ELSE fillSteps(half, order, mode, n - (n \div 2))

fillRun(m, order, mode) ==
    LET r == fillSteps(m, order, mode, 1024)
    IN  IF DfsDone(r) THEN r ELSE fillRun(r, order, mode)

\* The fill from (0,0) on a reset object.
fill(s, order, mode) ==
    fillRun([ResetTrace(s) EXCEPT !.stack = <<Frame(0, 0, -1)>>], order, mode)

(***************************************************************************)
(* C8: for every grid with an empty border ring, the count and the set of  *)
(* edges of the code's fill are those of the fill under every probe order  *)
(* and every expansion order (nested calls, stack, queue); the order of    *)
(* the list is not compared.                                               *)
(***************************************************************************)
C8_OrderIndependent ==
    (last = "ok" /\ RingEmpty) =>
        \A order \in ProbeOrders, mode \in FillModes :
            LET r == fill(Self, order, mode)
            IN  /\ r.totalCount = totalCount
                /\ Len(r.perimeterEdges) = Len(perimeterEdges)
                /\ EdgeSet(r.perimeterEdges) = EdgeSet(perimeterEdges)

\* A traced grid whose edge list comes out in another order under a queue
\* with the directions reversed, with the same count.
C8_Witness ==
    /\ last = "ok"
    /\ RingEmpty
    /\ totalCount > 0
    /\ LET r == fill(Self, Turn(5, TRUE), "queue")
       IN  r.perimeterEdges # perimeterEdges /\ r.totalCount = totalCount

(***************************************************************************)
(* C9, as it holds: the fill of a grid with positive dimensions returns;   *)
(* a cell once marked stays marked and a call marks one unmarked cell at   *)
(* most; every call and every recorded edge is on a cell of                *)
(* [0,H+1] x [0,W+1] and isVisited keeps its H+2 by W+2 shape; the depth   *)
(* of nested dfs calls never exceeds (W+2)*(H+2) + 1.                      *)
(***************************************************************************)
\* The cells marked in isVisited.
Marked(v) == {c \in UNION {{<<y, x>> : x \in DOMAIN v[y]} : y \in DOMAIN v} :
                 v[c[1]][c[2]] = TRUE}

C9_InRange ==
    last = "tracing" =>
        /\ \A i \in 1..Len(stack) : <<stack[i].y, stack[i].x>> \in AllCells(W, H)
        /\ \A e \in EdgeSet(perimeterEdges) : <<e.y, e.x>> \in ContentCells(W, H)
        /\ DOMAIN isVisited = 0..(H + 1)
        /\ \A y \in DOMAIN isVisited : DOMAIN isVisited[y] = 0..(W + 1)
        \* the calls past their guard are on distinct marked cells
        /\ \A i, j \in 1..Len(stack) :
              (i # j /\ stack[i].d >= 0 /\ stack[j].d >= 0) =>
                  <<stack[i].y, stack[i].x>> # <<stack[j].y, stack[j].x>>
        /\ \A i \in 1..Len(stack) :
              stack[i].d >= 0 => IsTrue(isVisited, stack[i].y, stack[i].x)
        /\ Len(stack) <= (W + 2) * (H + 2) + 1

C9_MarkedOnce ==
    (last = "tracing" /\ last' = "tracing") =>
        /\ Marked(isVisited) \subseteq Marked(isVisited')
        /\ Cardinality(Marked(isVisited') \ Marked(isVisited)) <= 1
        /\ (Marked(isVisited') # Marked(isVisited)) =>
              /\ stack[Len(stack)].d = -1
              /\ stack'[Len(stack')].d = 0

C6_BorderInvariant ==
    /\ Cardinality(DOMAIN grid) = H + 2
    /\ DOMAIN grid = 0..(H + 1)
    /\ \A y \in DOMAIN grid :
          Cardinality(DOMAIN grid[y]) = W + 2 /\ DOMAIN grid[y] = 0..(W + 1)
    /\ RingEmpty

(***************************************************************************)
(* C7: a step that sets the dimensions to a non-positive width or height,  *)
(* by initEmptyGrid or by the header loadFromInput reads, fails and leaves *)
(* W, H and the grid as they were.                                         *)
(***************************************************************************)
C7_NonPositiveRejected ==
    [][\A w \in DimInputs, h \in DimInputs :
          ((w <= 0 \/ h <= 0)
           /\ (InitEmptyGridWith(w, h) \/ \E lines \in LineInputs : LoadWith(w, h, lines)))
          => (W' = W /\ H' = H /\ grid' = grid /\ last' # "ok")]_vars

(***************************************************************************)
(* C10: after every handler, on a grid of positive dimensions,             *)
(* perimeterEdges and the displayed total are what computePerimeter gives  *)
(* on the grid as it is, and every recorded edge is on a cell of the grid. *)
(***************************************************************************)
C10_NoStalePerimeter ==
    (W >= 1 /\ H >= 1) =>
        LET r == computePerimeter(Self)
        IN  /\ r.err = "none"
            /\ r.ret = totalLength
            /\ EdgeSet(r.self.perimeterEdges) = EdgeSet(perimeterEdges)
            /\ \A e \in EdgeSet(perimeterEdges) : <<e.y, e.x>> \in AllCells(W, H)

====
